---- MODULE Spec2Model ----
(***************************************************************************)
(* Model of the fitness backend's identity resolution                      *)
(* (api/auth/middleware.py, core/settings.py) and nutrition aggregation    *)
(* (api/nutrition/views.py, api/nutrition/models.py).                      *)
(*                                                                         *)
(* Strings are sequences of atoms.  An atom is a single character ("a",    *)
(* ":", "@") or a run of characters that contains none of the separators   *)
(* the code splits on ("example.com", "User ", a base64url segment of a    *)
(* structured token together with its '.' separator).  An Authorization    *)
(* header is the sequence of the pieces that header.split(' ') yields.     *)
(***************************************************************************)
EXTENDS Integers, Sequences, FiniteSets, TLC

VARIABLES
    secret,     \* settings.SUPABASE_JWT_SECRET: "unset" or the configured key
    profiles,   \* the UserProfile table: a set of rows
    req,        \* per request: position in the resolver and what it produced
    goals,      \* the NutritionGoal table: a set of rows
    entries,    \* the MealEntry table: rows in the order they were inserted
    resp,       \* the response of the nutrition request handled last
    foods,      \* the FoodItem table: per-serving values of each food
    work,       \* per worker: the goal-reading request it is handling
    workouts,   \* the Workout table: a set of rows
    wsets,      \* the WorkoutSet table: a set of rows
    issued      \* how many workout ids and set ids have been generated

authVars == <<secret, profiles, req>>
nutVars == <<goals, entries, resp, foods, work>>
woVars == <<workouts, wsets, issued>>
vars == <<authVars, nutVars, woVars>>

\* Number of requests that may be in flight together.
MaxReq == 2

Reqs == 1..MaxReq

-----------------------------------------------------------------------------
(* Strings *)

Empty == <<>>

\* Is atom c in string s ('c' in s).
Contains(s, c) == \E i \in 1..Len(s) : s[i] = c

\* Index of the first occurrence of c in s (only used when Contains(s, c)).
FirstIndex(s, c) == CHOOSE i \in 1..Len(s) : s[i] = c /\ \A j \in 1..(i - 1) : s[j] # c

\* Mutation: no split, the whole string.
SplitHeadWhole(s, c) == s

\* s.split(c)[0]: the text before the first c, the whole of s when there is none.
SplitHead(s, c) == IF Contains(s, c) THEN SubSeq(s, 1, FirstIndex(s, c) - 1) ELSE s

ExampleCom == <<"@", "example.com">>

-----------------------------------------------------------------------------
(* Structured tokens: header segment, payload segment, signature segment.  *)

HeaderSegs == {"H"}

\* Payload segments and the claims each decodes to.  Any other atom in the
\* payload position is a segment that does not decode to a JSON object.
PayloadSegs == {"P_a_ax", "P_a_by", "P_b_b", "P_nosub", "P_noemail", "P_emptysub", "P_emptyemail"}

SigSegs == {"S_k", "S_x"}

PayloadClaims ==
    [p \in PayloadSegs |->
    CASE p = "P_a_ax"       -> [has_sub |-> TRUE,  sub |-> <<"a">>, has_email |-> TRUE,  email |-> <<"a", "@", "x.org">>]
      [] p = "P_a_by"       -> [has_sub |-> TRUE,  sub |-> <<"a">>, has_email |-> TRUE,  email |-> <<"b", "@", "y.org">>]
      [] p = "P_b_b"        -> [has_sub |-> TRUE,  sub |-> <<"b">>, has_email |-> TRUE,  email |-> <<"b">>]
      [] p = "P_nosub"      -> [has_sub |-> FALSE, sub |-> Empty,   has_email |-> TRUE,  email |-> <<"a", "@", "x.org">>]
      [] p = "P_noemail"    -> [has_sub |-> TRUE,  sub |-> <<"a">>, has_email |-> FALSE, email |-> Empty]
      [] p = "P_emptysub"   -> [has_sub |-> TRUE,  sub |-> Empty,   has_email |-> TRUE,  email |-> <<"a", "@", "x.org">>]
      [] p = "P_emptyemail" -> [has_sub |-> TRUE,  sub |-> <<"a">>, has_email |-> TRUE,  email |-> Empty]]

\* decoded = jwt.decode(...): the claims of a payload segment.
Claims(p) == PayloadClaims[p]

\* Mutation: the signature segment is verified against the configured secret.
JwtDecodesVerified(token) ==
    /\ Len(token) = 3
    /\ token[1] \in HeaderSegs
    /\ token[2] \in PayloadSegs
    /\ secret = "k" /\ token[3] = "S_k"

\* jwt.decode(token, options={"verify_signature": False}) succeeds: three
\* segments, the first two decodable.  The signature segment is not looked at.
JwtDecodes(token) ==
    /\ Len(token) = 3
    /\ token[1] \in HeaderSegs
    /\ token[2] \in PayloadSegs

-----------------------------------------------------------------------------
(* Authorization headers *)

\* auth_header.startswith(scheme + ' ')
StartsWith(header, scheme) == Len(header) >= 2 /\ header[1] = <<scheme>>

\* auth_header.split(' ')[1]
TokenOf(header) == header[2]

-----------------------------------------------------------------------------
(* The two authenticators, up to the point where they reach the database.  *)
(* Each yields: kind "none" (return None), "fail" (AuthenticationFailed    *)
(* with a reason) or "lookup" (go on to get_or_create with these values).  *)

ReturnNone == [kind |-> "none", reason |-> "", user_id |-> Empty, email |-> Empty,
               display_name |-> Empty, token |-> Empty, sets_auth |-> FALSE]

Failed(why) == [kind |-> "fail", reason |-> why, user_id |-> Empty, email |-> Empty,
                display_name |-> Empty, token |-> Empty, sets_auth |-> FALSE]

Lookup(uid, mail, name, tok, auth) ==
    [kind |-> "lookup", reason |-> "", user_id |-> uid, email |-> mail,
     display_name |-> name, token |-> tok, sets_auth |-> auth]

\* `not value` for a claim read with decoded.get(): missing (None) or ''.
Falsy(has, value) == ~has \/ value = Empty

\* Mutation: the fallback does not look at the scheme.
SimpleTokenFallbackAnyScheme(token, token_type) ==
    LET user_id == IF Contains(token, ":") THEN SplitHead(token, ":") ELSE token
        email == user_id \o ExampleCom
    IN  Lookup(user_id, email, SplitHead(email, "@"), token, TRUE)

\* SupabaseAuthentication.authenticate, the handler of jwt.PyJWTError: a Token
\* credential is read as a simple token, a Bearer credential is an error.
SimpleTokenFallback(token, token_type) ==
    IF token_type = "Token"
    THEN LET user_id == IF Contains(token, ":") THEN SplitHead(token, ":") ELSE token
             email == user_id \o ExampleCom
         IN  Lookup(user_id, email, SplitHead(email, "@"), token, TRUE)
    ELSE Failed("Authentication failed: Invalid JWT token")

\* SupabaseAuthentication.authenticate from the try block to the values handed
\* to get_or_create.  AuthenticationFailed raised for a missing claim is not a
\* PyJWTError: it passes the inner handler and is re-raised by the outer one.
SupabaseResolve(token, token_type) ==
    IF JwtDecodes(token)
    THEN LET decoded == Claims(token[2])
         IN  IF Falsy(decoded.has_sub, decoded.sub) \/ Falsy(decoded.has_email, decoded.email)
             THEN Failed("Authentication failed: Invalid token format: missing user_id or email")
             ELSE Lookup(decoded.sub, decoded.email, SplitHead(decoded.email, "@"), token, TRUE)
    ELSE SimpleTokenFallback(token, token_type)

\* Mutation: a header of another scheme, or none, is an error.
SupabaseAuthenticationStrict(header) ==
    IF StartsWith(header, "Bearer")
    THEN SupabaseResolve(TokenOf(header), "Bearer")
    ELSE IF StartsWith(header, "Token")
         THEN SupabaseResolve(TokenOf(header), "Token")
         ELSE Failed("Authentication failed: no credentials")

\* SupabaseAuthentication.authenticate up to the get_or_create call.
SupabaseAuthentication(header) ==
    IF StartsWith(header, "Bearer")
    THEN SupabaseResolve(TokenOf(header), "Bearer")
    ELSE IF StartsWith(header, "Token")
         THEN SupabaseResolve(TokenOf(header), "Token")
         ELSE ReturnNone

\* SimpleTokenAuthentication.authenticate, lines 72-95 up to the get_or_create call.
SimpleTokenAuthentication(header) ==
    IF ~StartsWith(header, "Token")
    THEN ReturnNone
    ELSE LET token == TokenOf(header)
             user_id == IF Contains(token, ":") THEN SplitHead(token, ":") ELSE token
         IN  Lookup(user_id, user_id \o ExampleCom, <<"User ">> \o user_id, token, FALSE)

\* REST_FRAMEWORK['DEFAULT_AUTHENTICATION_CLASSES']: the authenticators are
\* asked in this order and the first that does not return None decides.
DEFAULT_AUTHENTICATION_CLASSES == <<"SimpleTokenAuthentication", "SupabaseAuthentication">>

RunAuthenticator(name, header) ==
    IF name = "SimpleTokenAuthentication"
    THEN SimpleTokenAuthentication(header)
    ELSE SupabaseAuthentication(header)

RECURSIVE Chain(_, _)
Chain(i, header) ==
    IF i > Len(DEFAULT_AUTHENTICATION_CLASSES)
    THEN [by |-> "nobody", out |-> ReturnNone]
    ELSE LET out == RunAuthenticator(DEFAULT_AUTHENTICATION_CLASSES[i], header)
         IN  IF out.kind = "none" THEN Chain(i + 1, header)
             ELSE [by |-> DEFAULT_AUTHENTICATION_CLASSES[i], out |-> out]

-----------------------------------------------------------------------------
(* Inputs: the tokens and Authorization headers that requests carry.       *)

OpaqueTokens == {Empty, <<"a">>, <<"a", ":", "z">>, <<":", "a">>}

StructuredTokens ==
    {<<"H", "P_a_ax", g>> : g \in SigSegs}
        \cup {<<"H", "P_a_by", "S_k">>, <<"H", "P_b_b", "S_x">>}
        \cup {<<"H", p, "S_k">> : p \in {"P_nosub", "P_noemail", "P_emptysub", "P_emptyemail"}}

\* Three dot-separated segments, or two, that do not decode.
BrokenTokens == {<<"H", "P_junk", "S_k">>, <<"H", "P_a_ax">>}

Tokens == OpaqueTokens \cup StructuredTokens \cup BrokenTokens

\* The tokens sent under the Token scheme: the opaque ones and some of the
\* others.
TokenSchemeTokens ==
    OpaqueTokens \cup {<<"H", "P_a_ax", "S_k">>, <<"H", "P_nosub", "S_k">>, <<"H", "P_junk", "S_k">>}

\* No header at all reads as '' (one empty piece); "Bearer" and "Token" with
\* nothing after them have no space; "Basic a" is another scheme.
OtherHeaders ==
    {<<Empty>>, <<<<"Bearer">>>>, <<<<"Token">>>>, <<<<"Basic">>, <<"a">>>>}

Headers ==
    {<<<<"Bearer">>, t>> : t \in Tokens}
        \cup {<<<<"Token">>, t>> : t \in TokenSchemeTokens}
        \cup OtherHeaders

-----------------------------------------------------------------------------
(* The UserProfile table and get_or_create.                                *)

Row(uid, mail, name) == [user_id |-> uid, email |-> mail, display_name |-> name]

\* UserProfile.objects.filter(user_id=uid)
RowsOf(uid) == {p \in profiles : p.user_id = uid}

\* Mutation: user_id is not a key.
InsertAlways(uid) == TRUE

\* INSERT of a row: user_id is the primary key, so the insert is refused
\* (IntegrityError) when a row with that user_id is stored.
InsertAllowed(uid) == RowsOf(uid) = {}

Idle == [pc |-> "idle", header |-> <<Empty>>, by |-> "nobody", result |-> "pending",
         reason |-> "", lookup |-> ReturnNone, path |-> "none",
         row |-> {}, user_id_attr |-> {}, auth_attr |-> {}]

\* Mutation: the row is rebuilt from the credential.
FoundRowFromCredential(l) == Row(l.user_id, l.email, l.display_name)

\* The row get_or_create returns when its SELECT finds one.
FoundRow(l) == CHOOSE p \in RowsOf(l.user_id) : TRUE

\* What the authenticator leaves on a request it has resolved to `row`:
\* request.user_id always, request.auth where the authenticator sets it
\* (SupabaseAuthentication line 60).  `how` records which statement of
\* get_or_create produced the row: "get", "create" or "reget".
Resolved(r, row, how) ==
    [r EXCEPT !.pc = "done", !.result = "ok", !.row = {row}, !.path = how,
              !.user_id_attr = {r.lookup.user_id},
              !.auth_attr = IF r.lookup.sets_auth THEN {r.lookup.token} ELSE {}]

\* A request arrives with `header`; the authenticators run in their configured
\* order up to and including the SELECT of get_or_create.
Authenticate(i, header) ==
    /\ req[i].pc = "idle"
    /\ LET c == Chain(1, header)
           r == [req[i] EXCEPT !.header = header, !.by = c.by, !.lookup = c.out]
       IN  req' = [req EXCEPT ![i] =
                CASE c.out.kind = "none" -> [r EXCEPT !.pc = "done", !.result = "none"]
                  [] c.out.kind = "fail" -> [r EXCEPT !.pc = "done", !.result = "fail",
                                                      !.reason = c.out.reason]
                  [] OTHER ->
                        IF RowsOf(c.out.user_id) # {}
                        THEN Resolved(r, FoundRow(c.out), "get")
                        ELSE [r EXCEPT !.pc = "create"]]
    /\ UNCHANGED <<secret, profiles, nutVars, woVars>>

\* get_or_create found no row: INSERT one built from the defaults.  A refused
\* insert is caught inside get_or_create, which then SELECTs again.
Create(i) ==
    /\ req[i].pc = "create"
    /\ LET l == req[i].lookup
           row == Row(l.user_id, l.email, l.display_name)
       IN  IF InsertAllowed(l.user_id)
           THEN /\ profiles' = profiles \cup {row}
                /\ req' = [req EXCEPT ![i] = Resolved(req[i], row, "create")]
           ELSE /\ profiles' = profiles
                /\ req' = [req EXCEPT ![i].pc = "reget"]
    /\ UNCHANGED <<secret, nutVars, woVars>>

\* The SELECT after a refused insert; if the row is gone the IntegrityError
\* propagates and the authenticator's `except Exception` turns it into a failure.
ReGet(i) ==
    /\ req[i].pc = "reget"
    /\ req' = [req EXCEPT ![i] =
            IF RowsOf(req[i].lookup.user_id) # {}
            THEN Resolved(req[i], FoundRow(req[i].lookup), "reget")
            ELSE [req[i] EXCEPT !.pc = "done", !.result = "fail",
                                !.reason = "Authentication failed: IntegrityError"]]
    /\ UNCHANGED <<secret, profiles, nutVars, woVars>>

AuthInit ==
    /\ secret \in {"unset", "k"}
    /\ profiles = {}
    /\ req = [i \in Reqs |-> Idle]

-----------------------------------------------------------------------------
(* Nutrition: goals, meal entries and the daily summary.                   *)
(* Decimal fields (two decimal places) are integers counting hundredths;   *)
(* calories and calorie targets are plain integers.                        *)

\* Identities that requests are made as (request.user.user_id).
Users == {<<"a">>, <<"b">>}

\* Calendar days are numbered; the server's current date is the last of them.
MaxDay == 2
Days == 1..MaxDay
Today == MaxDay

\* Number of MealEntry rows stored at most.
MaxEntries == 2

\* Number of MealEntry rows stored at most where foods are ranked.
MaxLogged == 4

\* timedelta(days=6): the weekly window is today and the six days before.
WeekSpan == 6

\* timedelta(days=30): frequently used foods are those of the last 30 days.
FrequentSpan == 30

\* request.query_params.get('limit', 10)
DefaultLimit == 10

\* Dates of entries around the edges of the weekly window.
WeeklyDays == {Today - WeekSpan - 1, Today - WeekSpan, Today, Today + 1}

\* Dates of entries inside and outside the frequently-used scope.
FrequentDays == {Today - FrequentSpan - 1, Today, Today + 1}

\* The `limit` query parameter: absent, a number, or text int() rejects.
LimitParams ==
    {[kind |-> "absent", value |-> 0], [kind |-> "number", value |-> 1],
     [kind |-> "malformed", value |-> 0]}

Nutrients == {"calories", "protein", "carbs", "fat", "fiber", "sugar", "sodium"}

\* FoodItem rows as the seed command stores them: per-serving values, verified,
\* not custom and without a creator (created_by NULL is the empty set, a
\* creator u the set {u}).
FoodItems ==
    [Apple  |-> [calories |-> 95,  protein |-> 50,  carbs |-> 2500, fat |-> 30,
                 fiber |-> 440, sugar |-> 1900, sodium |-> 200,
                 is_verified |-> TRUE, is_custom |-> FALSE, created_by |-> {}],
     Banana |-> [calories |-> 105, protein |-> 130, carbs |-> 2700, fat |-> 40,
                 fiber |-> 310, sugar |-> 1400, sodium |-> 100,
                 is_verified |-> TRUE, is_custom |-> FALSE, created_by |-> {}]]

\* Nothing posted for the snapshot fields.
NothingPosted == [n \in {} |-> 0]

\* What a client posts to log a meal: food, servings (hundredths), meal type
\* and time of day, and the values it posts for snapshot fields.  When
\* servings is left out the instance gets the field default, the float 1.0.
EntryInputs ==
    {[food_item |-> "Apple",  servings |-> 50,  servings_given |-> TRUE,
      meal_type |-> "Breakfast", time |-> 8, posted |-> NothingPosted],
     [food_item |-> "Banana", servings |-> 300, servings_given |-> TRUE,
      meal_type |-> "Lunch",     time |-> 7, posted |-> NothingPosted]}

\* Further posts: one that leaves servings out and one that carries snapshot
\* values of its own.
OddEntryInputs ==
    {[food_item |-> "Apple", servings |-> 100, servings_given |-> FALSE,
      meal_type |-> "Snack", time |-> 9, posted |-> NothingPosted],
     [food_item |-> "Apple", servings |-> 50,  servings_given |-> TRUE,
      meal_type |-> "Snack", time |-> 9, posted |-> [n \in {"calories", "fiber"} |-> 999]]}

\* Values an edit of a food writes into one of its per-serving fields.
FoodEdits == {0, 55}
EditedFoods == {"Apple"}
EditedNutrients == {"fiber"}

\* Servings an update of an entry writes.
ServingInputs == {50, 300}

\* The `date` query parameter: absent, a well-formed YYYY-MM-DD string naming
\* a day, or a string strptime rejects.
DateParams ==
    {[kind |-> "absent", day |-> 0], [kind |-> "malformed", day |-> 0]}
        \cup {[kind |-> "date", day |-> d] : d \in Days}

\* int(x) of a non-negative quotient n/d.
Trunc(n, d) == n \div d

\* n/d rounded to an integer, ties to even: how a Decimal is quantized to the
\* two places of its column when the row is written.
RoundHalfEven(n, d) ==
    LET q == n \div d
        r == n % d
    IN  IF 2 * r > d THEN q + 1
        ELSE IF 2 * r = d THEN q + (q % 2)
        ELSE q

\* NutritionGoal field defaults.
DefaultGoal(u) ==
    [user_id |-> u, calorie_target |-> 2000, protein_target |-> 15000,
     carbs_target |-> 20000, fat_target |-> 6500, fiber_target |-> 2500,
     sugar_target |-> 5000, sodium_target |-> 230000, goal_type |-> "maintain"]

\* Target values a client writes to its goal: nothing validates their sign.
TargetInputs ==
    {[calorie_target |-> 0,    protein_target |-> -100, carbs_target |-> 0,     fat_target |-> -100],
     [calorie_target |-> 3,    protein_target |-> 300,  carbs_target |-> 300,   fat_target |-> 300],
     [calorie_target |-> 2500, protein_target |-> 0,    carbs_target |-> 20000, fat_target |-> -100]}

PositiveCalorieTargets == {t \in TargetInputs : t.calorie_target > 0}

WithTargets(g, t) ==
    [g EXCEPT !.calorie_target = t.calorie_target, !.protein_target = t.protein_target,
              !.carbs_target = t.carbs_target, !.fat_target = t.fat_target]

\* NutritionGoal.objects.filter(user_id=u)
GoalsOf(u) == {g \in goals : g.user_id = u}

\* Mutation: user_id is not unique.
GoalInsertAlways(u) == TRUE

\* NutritionGoal.user_id is unique: a second row for a user is refused.
GoalInsertAllowed(u) == GoalsOf(u) = {}

\* MealEntry.save: each snapshot field that is unset or zero is computed from
\* the food's per-serving value and the servings; `unset` names the fields the
\* instance holds None for.
MealEntrySave(vals, unset, food, servings) ==
    [n \in Nutrients |->
        IF n \in unset \/ vals[n] = 0
        THEN IF n = "calories"
             THEN Trunc(food[n] * servings, 100)
             ELSE RoundHalfEven(food[n] * servings, 100)
        ELSE vals[n]]

\* The instance MealEntrySerializer.create builds: the snapshot fields are
\* read-only, so the four without a model default are None and the other
\* three hold their default 0.
NewEntryVals == [n \in Nutrients |-> 0]
NewEntryUnset == {"calories", "protein", "carbs", "fat"}

\* Mutation: posted snapshot values reach the instance.
InstanceValsWritable(inp) ==
    [n \in Nutrients |-> IF n \in DOMAIN inp.posted THEN inp.posted[n] ELSE 0]

\* The snapshot values of the instance built from post `inp`: what is posted
\* for a read-only field is dropped from the validated data.
InstanceVals(inp) == NewEntryVals

\* The snapshot fields the instance built from post `inp` holds None for.
InstanceUnset(inp) == NewEntryUnset

NoResponse == [kind |-> "none", status |-> 0]

\* Number of workers that handle goal-reading requests together.
MaxWorkers == 2
Workers == 1..MaxWorkers

\* A worker between requests.
IdleWork == [pc |-> "idle", kind |-> "none", user_id |-> Empty,
             param |-> [kind |-> "absent", day |-> 0], body |-> NoResponse]

\* No response is waiting to be sent: the server takes the next request.
Ready == resp = NoResponse

\* MealEntryViewSet.create: POST /meals/.  Without servings the instance holds
\* the float default and MealEntry.save multiplies a Decimal by it: TypeError,
\* answered 500, nothing stored.
CreateEntry(u, inp, d) ==
    /\ Ready
    /\ IF inp.servings_given
       THEN LET snap == MealEntrySave(InstanceVals(inp), InstanceUnset(inp),
                                      foods[inp.food_item], inp.servings)
                row == [id |-> Len(entries) + 1, user_id |-> u, date |-> d, time |-> inp.time,
                        meal_type |-> inp.meal_type, food_item |-> inp.food_item,
                        servings |-> inp.servings, snapshot |-> snap]
            IN  /\ entries' = Append(entries, row)
                /\ resp' = [kind |-> "meal", status |-> 201, id |-> row.id]
       ELSE /\ entries' = entries
            /\ resp' = [kind |-> "meal", status |-> 500, id |-> 0]
    /\ UNCHANGED <<goals, foods, work, authVars, woVars>>

\* MealEntryViewSet.update / partial_update: PUT or PATCH /meals/<id>/ on an
\* entry of the caller.  The writable fields are set (here servings, possibly
\* to the value it has) and MealEntry.save runs again on the loaded row.
UpdateEntry(u, k, sv) ==
    /\ Ready
    /\ k \in 1..Len(entries)
    /\ IF entries[k].user_id = u
       THEN /\ entries' = [entries EXCEPT
                    ![k].servings = sv,
                    ![k].snapshot = MealEntrySave(entries[k].snapshot, {},
                                                  foods[entries[k].food_item], sv)]
            /\ resp' = [kind |-> "meal", status |-> 200, id |-> entries[k].id]
       ELSE /\ entries' = entries
            /\ resp' = [kind |-> "meal", status |-> 404, id |-> entries[k].id]
    /\ UNCHANGED <<goals, foods, work, authVars, woVars>>

\* FoodItemViewSet.update / partial_update: PUT or PATCH /foods/<id>/ writes
\* a per-serving value of the food.  No entry is touched.
EditFood(f, n, v) ==
    /\ Ready
    /\ foods' = [foods EXCEPT ![f][n] = v]
    /\ resp' = [kind |-> "food", status |-> 200, food_item |-> f]
    /\ UNCHANGED <<goals, entries, work, authVars, woVars>>

\* NutritionGoalViewSet.create: POST /goals/.  user_id is read-only, so no
\* validator checks it and a second goal is refused by the table only.
CreateGoal(u, t) ==
    /\ Ready
    /\ IF GoalInsertAllowed(u)
       THEN /\ goals' = goals \cup {WithTargets(DefaultGoal(u), t)}
            /\ resp' = [kind |-> "goal", status |-> 201, user_id |-> u]
       ELSE /\ goals' = goals
            /\ resp' = [kind |-> "goal", status |-> 500, user_id |-> u]
    /\ UNCHANGED <<entries, foods, work, authVars, woVars>>

\* NutritionGoalViewSet.update: PUT /goals/<id>/ on the caller's own goal.
UpdateGoal(u, t) ==
    /\ Ready
    /\ IF GoalsOf(u) # {}
       THEN /\ goals' = (goals \ GoalsOf(u)) \cup {WithTargets(g, t) : g \in GoalsOf(u)}
            /\ resp' = [kind |-> "goal", status |-> 200, user_id |-> u]
       ELSE /\ goals' = goals
            /\ resp' = [kind |-> "goal", status |-> 404, user_id |-> u]
    /\ UNCHANGED <<entries, foods, work, authVars, woVars>>

\* Mutation: the user filter is missing.
EntriesOfAnyUser(u, d) == {k \in 1..Len(entries) : entries[k].date = d}

\* Mutation: the date filter is missing.
EntriesOnAnyDate(u, d) == {k \in 1..Len(entries) : entries[k].user_id = u}

\* MealEntry.objects.filter(user_id=u, date=d): positions in the table.
EntriesOn(u, d) == {k \in 1..Len(entries) : entries[k].user_id = u /\ entries[k].date = d}

\* Sum('<field>') over the rows ks.
RECURSIVE SumField(_, _)
SumField(ks, n) ==
    IF ks = {} THEN 0
    ELSE LET k == CHOOSE x \in ks : TRUE
         IN  entries[k].snapshot[n] + SumField(ks \ {k}, n)

\* entries.aggregate(...) followed by the replacement of None by 0: Sum over
\* no rows is None.
Totals(ks) == [n \in Nutrients |-> IF ks = {} THEN 0 ELSE SumField(ks, n)]

\* Mutation: only a zero target is guarded.
ProgressGuardsZeroOnly(total, target) ==
    IF target > 0 THEN Trunc(total * 100, target)
    ELSE IF target < 0 THEN 0 - Trunc(total * 100, 0 - target)
    ELSE 0

\* int((total / target) * 100) if target > 0 else 0.  The calories quotient
\* is a binary float in the code; for the totals and targets that occur here
\* its truncation equals the exact one computed below.
Progress(total, target) == IF target > 0 THEN Trunc(total * 100, target) ELSE 0

\* Mutation: the rows are fetched in any order.
FetchOrdersUnordered(ks) ==
    {o \in [1..Cardinality(ks) -> ks] :
        \A a, b \in 1..Cardinality(ks) : a # b => o[a] # o[b]}

\* The orders in which the rows ks can be fetched: Meta.ordering is
\* ['date', 'time'], rows equal in both come in any order.
FetchOrders(ks) ==
    {o \in [1..Cardinality(ks) -> ks] :
        /\ \A a, b \in 1..Cardinality(ks) : a # b => o[a] # o[b]
        /\ \A a, b \in 1..Cardinality(ks) :
              a < b => \/ entries[o[a]].date < entries[o[b]].date
                       \/ /\ entries[o[a]].date = entries[o[b]].date
                          /\ entries[o[a]].time <= entries[o[b]].time}

\* The ids of the rows of `order` whose meal type is named m, in that order.
RECURSIVE MealGroup(_, _)
MealGroup(order, m) ==
    IF order = <<>> THEN <<>>
    ELSE IF entries[Head(order)].meal_type = m
         THEN <<entries[Head(order)].id>> \o MealGroup(Tail(order), m)
         ELSE MealGroup(Tail(order), m)

\* The `meals` dictionary: a key for each meal type met, in `order`.
Meals(order) ==
    [m \in {entries[order[a]].meal_type : a \in 1..Len(order)} |-> MealGroup(order, m)]

\* The `date` query parameter as the handler reads it: strptime raises
\* ValueError on a malformed one; an absent one means the server's today.
ParsesAsDate(dp) == dp.kind # "malformed"
DateOf(dp) == IF dp.kind = "date" THEN dp.day ELSE Today

\* The 400 response of the ValueError handler.
BadDate(u, dp) ==
    [kind |-> "summary", status |-> 400, user_id |-> u, param |-> dp,
     error |-> "Invalid date format. Use YYYY-MM-DD"]

\* The goal of NutritionGoal.objects.get(user_id=u) or, when there is none
\* (DoesNotExist), the row NutritionGoal.objects.create(user_id=u) builds.
StoredOrDefaultGoal(u) ==
    IF GoalsOf(u) # {} THEN CHOOSE g \in GoalsOf(u) : TRUE ELSE DefaultGoal(u)

\* summary_data: totals of the rows for (u, date), the four targets of `goal`,
\* the four progress percentages and the rows grouped by meal type.  The
\* record keeps the request (user and date parameter) beside them.
SummaryData(u, dp, goal, order) ==
    LET date == DateOf(dp)
        totals == Totals(EntriesOn(u, date))
    IN  [kind |-> "summary", status |-> 200, user_id |-> u, param |-> dp,
         date |-> date,
         totals |-> totals,
         calorie_goal |-> goal.calorie_target,
         protein_goal |-> goal.protein_target,
         carbs_goal |-> goal.carbs_target,
         fat_goal |-> goal.fat_target,
         calorie_progress |-> Progress(totals["calories"], goal.calorie_target),
         protein_progress |-> Progress(totals["protein"], goal.protein_target),
         carbs_progress |-> Progress(totals["carbs"], goal.carbs_target),
         fat_progress |-> Progress(totals["fat"], goal.fat_target),
         meals |-> Meals(order)]

\* Mutation: the goal is read or created before the date is parsed.
SummaryGoalBeforeDate(u, dp) ==
    /\ Ready
    /\ goals' = goals \cup {StoredOrDefaultGoal(u)}
    /\ IF ~ParsesAsDate(dp)
       THEN resp' = BadDate(u, dp)
       ELSE \E order \in FetchOrders(EntriesOn(u, DateOf(dp))) :
                resp' = SummaryData(u, dp, StoredOrDefaultGoal(u), order)
    /\ UNCHANGED <<entries, foods, work, authVars, woVars>>

\* MealEntryViewSet.summary: GET /meals/summary/?date=... handled as a whole.
Summary(u, dp) ==
    /\ Ready
    /\ IF ~ParsesAsDate(dp)
       THEN /\ resp' = BadDate(u, dp)
            /\ goals' = goals
       ELSE /\ goals' = goals \cup {StoredOrDefaultGoal(u)}
            /\ \E order \in FetchOrders(EntriesOn(u, DateOf(dp))) :
                  resp' = SummaryData(u, dp, StoredOrDefaultGoal(u), order)
    /\ UNCHANGED <<entries, foods, work, authVars, woVars>>

-----------------------------------------------------------------------------
(* Weekly summary and frequently used foods *)

\* Mutation: the window has no lower bound.
WeekEntriesUnbounded(u) ==
    {k \in 1..Len(entries) : entries[k].user_id = u /\ entries[k].date <= Today}

\* MealEntry.objects.filter(user_id=u, date__gte=start_date, date__lte=end_date)
WeekEntries(u) ==
    {k \in 1..Len(entries) :
        /\ entries[k].user_id = u
        /\ entries[k].date >= Today - WeekSpan
        /\ entries[k].date <= Today}

\* daily_data after the loop over the rows ks: a key for each date met, its
\* value the date and the sums of the four nutrients over the rows so dated.
DailyData(ks) ==
    [d \in {entries[k].date : k \in ks} |->
        LET on == {k \in ks : entries[k].date = d}
        IN  [date |-> d, calories |-> SumField(on, "calories"), protein |-> SumField(on, "protein"),
             carbs |-> SumField(on, "carbs"), fat |-> SumField(on, "fat")]]

\* daily_data after the dates of the window that are not keys have been
\* given zero rows.
FilledData(data) ==
    [d \in DOMAIN data \cup ((Today - WeekSpan)..Today) |->
        IF d \in DOMAIN data THEN data[d]
        ELSE [date |-> d, calories |-> 0, protein |-> 0, carbs |-> 0, fat |-> 0]]

\* result.sort(key=lambda x: x['date']) of the rows in set rs.
RECURSIVE SortByDate(_)
SortByDate(rs) ==
    IF rs = {} THEN <<>>
    ELSE LET first == CHOOSE x \in rs : \A y \in rs : x.date <= y.date
         IN  <<first>> \o SortByDate(rs \ {first})

\* MealEntryViewSet.weekly: GET /meals/weekly/
Weekly(u) ==
    /\ Ready
    /\ LET data == FilledData(DailyData(WeekEntries(u)))
       IN  resp' = [kind |-> "weekly", status |-> 200, user_id |-> u,
                    result |-> SortByDate({data[d] : d \in DOMAIN data})]
    /\ UNCHANGED <<goals, entries, foods, work, authVars, woVars>>

\* MealEntry.objects.filter(user_id=u, date__gte=thirty_days_ago)
RecentEntries(u) ==
    {k \in 1..Len(entries) : entries[k].user_id = u /\ entries[k].date >= Today - FrequentSpan}

\* Sum('servings') over the rows ks.
RECURSIVE SumServings(_)
SumServings(ks) ==
    IF ks = {} THEN 0
    ELSE LET k == CHOOSE x \in ks : TRUE
         IN  entries[k].servings + SumServings(ks \ {k})

\* Mutation: foods are ranked by the number of their entries.
RankKeyCount(ks, f) == 100 * Cardinality({k \in ks : entries[k].food_item = f})

\* The annotation `count` of the group of food f among the rows ks.
RankKey(ks, f) == SumServings({k \in ks : entries[k].food_item = f})

\* .values('food_item').annotate(count=Sum('servings')).order_by('-count'):
\* the orders the groups can come in, equal counts in any order.
RankOrders(ks) ==
    LET fs == {entries[k].food_item : k \in ks}
    IN  {o \in [1..Cardinality(fs) -> fs] :
            /\ \A a, b \in 1..Cardinality(fs) : a # b => o[a] # o[b]
            /\ \A a, b \in 1..Cardinality(fs) : a < b => RankKey(ks, o[a]) >= RankKey(ks, o[b])}

\* [:limit]
Truncated(o, limit) == SubSeq(o, 1, IF limit < Len(o) THEN limit ELSE Len(o))

\* MealEntryViewSet.frequently_used: GET /meals/frequently_used/?limit=...
\* int() of a limit that is not a number raises ValueError: 500.
FrequentlyUsed(u, lp) ==
    /\ Ready
    /\ IF lp.kind = "malformed"
       THEN resp' = [kind |-> "frequent", status |-> 500, user_id |-> u, param |-> lp, result |-> <<>>]
       ELSE LET limit == IF lp.kind = "number" THEN lp.value ELSE DefaultLimit
            IN  \E o \in RankOrders(RecentEntries(u)) :
                    resp' = [kind |-> "frequent", status |-> 200, user_id |-> u, param |-> lp,
                             result |-> Truncated(o, limit)]
    /\ UNCHANGED <<goals, entries, foods, work, authVars, woVars>>

-----------------------------------------------------------------------------
(* The same handlers run by concurrent workers: the SELECT of the goal and  *)
(* the INSERT of a default one are separate statements, and other requests  *)
(* run between them.                                                        *)

NoDate == [kind |-> "absent", day |-> 0]
BadDateParam == [kind |-> "malformed", day |-> 0]

\* The response of NutritionGoalViewSet.current for goal g.
GoalData(u, g) == [kind |-> "current", status |-> 200, user_id |-> u, goal |-> g]

\* An exception no handler catches: Django answers 500.
ServerError(u, what) == [kind |-> "error", status |-> 500, user_id |-> u, error |-> what]

\* A worker ends its request with response `body`.
Answered(w, u, kind, dp, body) ==
    [pc |-> "done", kind |-> kind, user_id |-> u, param |-> dp, body |-> body]

\* MealEntryViewSet.summary up to NutritionGoal.objects.get: a malformed date
\* is answered at once, a stored goal lets the handler run to its end, and
\* DoesNotExist leaves it before NutritionGoal.objects.create.
SummaryGet(w, u, dp) ==
    /\ work[w].pc = "idle"
    /\ IF ~ParsesAsDate(dp)
       THEN work' = [work EXCEPT ![w] = Answered(w, u, "summary", dp, BadDate(u, dp))]
       ELSE IF GoalsOf(u) # {}
            THEN \E order \in FetchOrders(EntriesOn(u, DateOf(dp))) :
                    work' = [work EXCEPT ![w] =
                        Answered(w, u, "summary", dp, SummaryData(u, dp, StoredOrDefaultGoal(u), order))]
            ELSE work' = [work EXCEPT ![w] =
                        [pc |-> "create", kind |-> "summary", user_id |-> u, param |-> dp,
                         body |-> NoResponse]]
    /\ UNCHANGED <<goals, entries, resp, foods, authVars, woVars>>

\* NutritionGoalViewSet.current up to NutritionGoal.objects.get.
CurrentGet(w, u) ==
    /\ work[w].pc = "idle"
    /\ IF GoalsOf(u) # {}
       THEN work' = [work EXCEPT ![w] =
                Answered(w, u, "current", NoDate, GoalData(u, StoredOrDefaultGoal(u)))]
       ELSE work' = [work EXCEPT ![w] =
                [pc |-> "create", kind |-> "current", user_id |-> u, param |-> NoDate,
                 body |-> NoResponse]]
    /\ UNCHANGED <<goals, entries, resp, foods, authVars, woVars>>

\* NutritionGoal.objects.create(user_id=u) in the DoesNotExist handler of
\* either action, and the rest of the handler.  The INSERT is refused when a
\* goal of the user has been stored meanwhile; nothing catches that
\* IntegrityError.
GoalCreate(w) ==
    /\ work[w].pc = "create"
    /\ LET u == work[w].user_id
           dp == work[w].param
           kind == work[w].kind
       IN  IF GoalInsertAllowed(u)
           THEN /\ goals' = goals \cup {DefaultGoal(u)}
                /\ IF kind = "current"
                   THEN work' = [work EXCEPT ![w] =
                            Answered(w, u, kind, dp, GoalData(u, DefaultGoal(u)))]
                   ELSE \E order \in FetchOrders(EntriesOn(u, DateOf(dp))) :
                            work' = [work EXCEPT ![w] =
                                Answered(w, u, kind, dp, SummaryData(u, dp, DefaultGoal(u), order))]
           ELSE /\ goals' = goals
                /\ work' = [work EXCEPT ![w] =
                        Answered(w, u, kind, dp, ServerError(u, "IntegrityError"))]
    /\ UNCHANGED <<entries, resp, foods, authVars, woVars>>

\* The worker sends its response and is free for the next request.
WorkerReturn(w) ==
    /\ work[w].pc = "done"
    /\ work' = [work EXCEPT ![w] = IdleWork]
    /\ UNCHANGED <<goals, entries, resp, foods, authVars, woVars>>

\* The handler returns: its response goes to the client.
Respond ==
    /\ ~Ready
    /\ resp' = NoResponse
    /\ UNCHANGED <<goals, entries, foods, work, authVars, woVars>>

NutInit ==
    /\ goals = {}
    /\ entries = <<>>
    /\ resp = NoResponse
    /\ foods = FoodItems
    /\ work = [w \in Workers |-> IdleWork]

-----------------------------------------------------------------------------
(* Food items created and updated through the API *)

\* Number of foods created through the API at most.
MaxCustom == 1

\* The id of the n-th food created through the API.
CustomId(n) == "Custom" \o ToString(n)

\* The ids a request can name.
FoodIds == DOMAIN FoodItems \cup {CustomId(n) : n \in 1..MaxCustom}

CustomCount == Cardinality(DOMAIN foods) - Cardinality(DOMAIN FoodItems)

\* Bodies of POST /foods/: the nutrient values of a food, alone or with
\* metadata fields of the client's own.
FoodPosts ==
    {[calories |-> 52, protein |-> 30, carbs |-> 1400, fat |-> 20,
      fiber |-> 240, sugar |-> 1000, sodium |-> 100],
     [calories |-> 52, protein |-> 30, carbs |-> 1400, fat |-> 20,
      fiber |-> 240, sugar |-> 1000, sodium |-> 100,
      is_verified |-> TRUE, is_custom |-> FALSE, created_by |-> {<<"b">>}]}

\* Bodies of PATCH /foods/<id>/.
FoodPatches ==
    {[fiber |-> 55], [is_custom |-> TRUE], [created_by |-> {}]}

\* The model's defaults of the metadata fields.
FoodDefaults == [is_verified |-> FALSE, is_custom |-> FALSE, created_by |-> {}]

\* Row `row` with the fields `names` of `data` written over it.
Written(row, data, names) ==
    [k \in DOMAIN row |-> IF k \in names \cap DOMAIN data THEN data[k] ELSE row[k]]

\* FoodItemViewSet.get_queryset: verified foods and the user's own.
VisibleFoods(u) ==
    {f \in DOMAIN foods : foods[f].is_verified \/ foods[f].created_by = {u}}

\* FoodItemViewSet.create with FoodItemCreateSerializer: POST /foods/.
\* is_verified is read-only; create() overwrites is_custom and created_by.
CreateFood(u, post) ==
    /\ Ready
    /\ LET id == CustomId(CustomCount + 1)
           blank == [n \in Nutrients |-> 0] @@ FoodDefaults
           validated == Written(blank, post, DOMAIN blank \ {"is_verified"})
           row == [validated EXCEPT !.is_custom = TRUE, !.created_by = {u}]
       IN  /\ foods' = foods @@ (id :> row)
           /\ resp' = [kind |-> "food", status |-> 201, user_id |-> u, food_item |-> id]
    /\ UNCHANGED <<goals, entries, work, authVars, woVars>>

\* FoodItemViewSet.partial_update with FoodItemSerializer: PATCH /foods/<id>/.
\* A food outside the queryset is not found; every model field is writable.
UpdateFood(u, f, patch) ==
    /\ Ready
    /\ IF f \in VisibleFoods(u)
       THEN /\ foods' = [foods EXCEPT ![f] = Written(@, patch, DOMAIN @)]
            /\ resp' = [kind |-> "food", status |-> 200, user_id |-> u, food_item |-> f]
       ELSE /\ foods' = foods
            /\ resp' = [kind |-> "food", status |-> 404, user_id |-> u, food_item |-> f]
    /\ UNCHANGED <<goals, entries, work, authVars, woVars>>

-----------------------------------------------------------------------------
(* Workouts and their sets *)

\* Number of workouts created at most.
MaxWorkouts == 2

\* Number of set ids generated at most.
MaxSets == 2

\* The ids a request can name.
WorkoutIds == 1..MaxWorkouts
SetIds == 1..MaxSets

\* Bodies of a set: exercise, set_number and reps.
SetInputs ==
    {[exercise |-> "Squat", set_number |-> 1, reps |-> 5],
     [exercise |-> "Squat", set_number |-> 2, reps |-> 5],
     [exercise |-> "Bench", set_number |-> 1, reps |-> 5]}

FirstSet == [exercise |-> "Squat", set_number |-> 1, reps |-> 5]
SecondSet == [exercise |-> "Squat", set_number |-> 2, reps |-> 5]

\* Bodies of POST /workouts/: without sets, with two sets, and with two sets
\* that share exercise and set_number.
WorkoutPosts ==
    {[name |-> "Legs", date |-> Today, sets |-> <<>>],
     [name |-> "Legs", date |-> Today, sets |-> <<FirstSet, SecondSet>>],
     [name |-> "Legs", date |-> Today, sets |-> <<FirstSet, FirstSet>>]}

\* Bodies of PATCH /workouts/<id>/: the fields WorkoutSerializer lets a
\* client write, user_id among them.
WorkoutPatches == {[name |-> "Push"]} \cup {[user_id |-> u] : u \in Users}

\* Mutation: the queryset holds the workouts of every user.
WorkoutsOfAnyone(u) == workouts

\* WorkoutViewSet.get_queryset: the workouts of the requesting user.
WorkoutsOf(u) == {w \in workouts : w.user_id = u}

\* WorkoutSetViewSet.get_queryset: the sets of the workout named in the URL.
SetsOf(wid) == {s \in wsets : s.workout = wid}

\* unique_together of WorkoutSet: storing `row` among `rows` is refused with
\* an IntegrityError when another row has its workout, exercise and set_number.
SetClash(rows, row) ==
    \E s \in rows :
        /\ s.id # row.id
        /\ s.workout = row.workout
        /\ s.exercise = row.exercise
        /\ s.set_number = row.set_number

\* The loop of WorkoutCreateSerializer.create: the sets are inserted one by
\* one, each statement committed by itself, until one is refused.
RECURSIVE InsertSets(_, _, _, _)
InsertSets(wid, data, rows, n) ==
    IF data = <<>>
    THEN [rows |-> rows, issued |-> n, ok |-> TRUE]
    ELSE LET row == [id |-> n + 1, workout |-> wid, exercise |-> Head(data).exercise,
                     set_number |-> Head(data).set_number, reps |-> Head(data).reps]
         IN  IF SetClash(rows, row)
             THEN [rows |-> rows, issued |-> n, ok |-> FALSE]
             ELSE InsertSets(wid, Tail(data), rows \cup {row}, n + 1)

\* WorkoutViewSet.create with WorkoutCreateSerializer: POST /workouts/.  The
\* nested set serializers have no workout in their context and validate
\* nothing about duplicates; an IntegrityError of the loop is a 500.
WorkoutCreate(u, post) ==
    /\ Ready
    /\ LET id == issued.workout + 1
           row == [id |-> id, user_id |-> u, name |-> post.name, date |-> post.date]
           ins == InsertSets(id, post.sets, wsets, issued.set)
       IN  /\ workouts' = workouts \cup {row}
           /\ wsets' = ins.rows
           /\ issued' = [workout |-> id, set |-> ins.issued]
           /\ resp' = IF ins.ok
                      THEN [kind |-> "workout_create", status |-> 201, user_id |-> u, id |-> id]
                      ELSE [kind |-> "workout_create", status |-> 500, user_id |-> u, id |-> 0]
    /\ UNCHANGED <<goals, entries, foods, work, authVars>>

\* WorkoutViewSet.retrieve: GET /workouts/<id>/.
WorkoutRetrieve(u, id) ==
    /\ Ready
    /\ LET found == {w \in WorkoutsOf(u) : w.id = id}
       IN  resp' = [kind |-> "workout_retrieve", status |-> IF found = {} THEN 404 ELSE 200,
                    user_id |-> u, id |-> id, result |-> found,
                    sets |-> IF found = {} THEN {} ELSE SetsOf(id)]
    /\ UNCHANGED <<goals, entries, foods, work, authVars, woVars>>

\* WorkoutViewSet.list: GET /workouts/.
WorkoutList(u) ==
    /\ Ready
    /\ resp' = [kind |-> "workout_list", status |-> 200, user_id |-> u, id |-> 0,
                result |-> WorkoutsOf(u)]
    /\ UNCHANGED <<goals, entries, foods, work, authVars, woVars>>

\* WorkoutViewSet.partial_update with WorkoutSerializer: PATCH /workouts/<id>/.
WorkoutUpdate(u, id, patch) ==
    /\ Ready
    /\ LET found == {w \in WorkoutsOf(u) : w.id = id}
       IN  IF found = {}
           THEN /\ workouts' = workouts
                /\ resp' = [kind |-> "workout_update", status |-> 404, user_id |-> u, id |-> id]
           ELSE /\ workouts' = (workouts \ found)
                        \cup {Written(w, patch, {"user_id", "name", "date"}) : w \in found}
                /\ resp' = [kind |-> "workout_update", status |-> 200, user_id |-> u, id |-> id]
    /\ UNCHANGED <<goals, entries, foods, work, authVars, wsets, issued>>

\* WorkoutViewSet.destroy: DELETE /workouts/<id>/; the sets go with it.
WorkoutDelete(u, id) ==
    /\ Ready
    /\ LET found == {w \in WorkoutsOf(u) : w.id = id}
       IN  IF found = {}
           THEN /\ workouts' = workouts /\ wsets' = wsets
                /\ resp' = [kind |-> "workout_delete", status |-> 404, user_id |-> u, id |-> id]
           ELSE /\ workouts' = workouts \ found
                /\ wsets' = wsets \ SetsOf(id)
                /\ resp' = [kind |-> "workout_delete", status |-> 204, user_id |-> u, id |-> id]
    /\ UNCHANGED <<goals, entries, foods, work, authVars, issued>>

\* The `days` parameter of the history: absent, or a number.
HistoryParams == {[kind |-> "absent", value |-> 0], [kind |-> "number", value |-> 2]}

\* request.query_params.get('days', 30)
DefaultDays == 30

\* Dates of workouts around the edges of the periods asked for.
HistoryDates ==
    {Today - DefaultDays - 1, Today - DefaultDays, Today - 3, Today - 2, Today - 1, Today,
     Today + 1}

\* Mutation: the period has no start.
HistoryRowsUnbounded(u, days) ==
    {w \in workouts : w.user_id = u /\ w.date <= Today}

\* The filter of the history: the user's workouts dated from today minus
\* `days` through today.
HistoryRows(u, days) ==
    {w \in workouts : w.user_id = u /\ w.date >= Today - days /\ w.date <= Today}

\* order_by('date'): ascending by date, rows of one date in any order.
DateOrders(rows) ==
    {o \in [1..Cardinality(rows) -> rows] :
        /\ \A a, b \in 1..Cardinality(rows) : a # b => o[a] # o[b]
        /\ \A a, b \in 1..Cardinality(rows) : a < b => o[a].date <= o[b].date}

\* WorkoutViewSet.history: GET /workouts/history/?days=N.
History(u, hp) ==
    /\ Ready
    /\ LET days == IF hp.kind = "number" THEN hp.value ELSE DefaultDays
       IN  \E order \in DateOrders(HistoryRows(u, days)) :
               resp' = [kind |-> "history", status |-> 200, user_id |-> u, param |-> hp,
                        result |-> order]
    /\ UNCHANGED <<goals, entries, foods, work, authVars, woVars>>

\* WorkoutSetViewSet.list: GET /workouts/<wid>/sets/.
SetList(u, wid) ==
    /\ Ready
    /\ resp' = [kind |-> "set_list", status |-> 200, user_id |-> u, workout |-> wid,
                id |-> 0, result |-> SetsOf(wid)]
    /\ UNCHANGED <<goals, entries, foods, work, authVars, woVars>>

\* WorkoutSetViewSet.retrieve: GET /workouts/<wid>/sets/<sid>/.
SetRetrieve(u, wid, sid) ==
    /\ Ready
    /\ LET found == {s \in SetsOf(wid) : s.id = sid}
       IN  resp' = [kind |-> "set_retrieve", status |-> IF found = {} THEN 404 ELSE 200,
                    user_id |-> u, workout |-> wid, id |-> sid, result |-> found]
    /\ UNCHANGED <<goals, entries, foods, work, authVars, woVars>>

\* The statuses with which `raise permissions.PermissionDenied(...)` ends the
\* request: 403 where rest_framework.permissions has that name, 500
\* (AttributeError) where it has not.
DeniedStatuses == {403, 500}

\* WorkoutSetViewSet.create and perform_create: POST /workouts/<wid>/sets/.
\* The serializer has no workout in its context, so validate() checks
\* nothing; a missing workout (DoesNotExist) and a refused insert
\* (IntegrityError) are 500s.
SetCreate(u, wid, data) ==
    /\ Ready
    /\ LET owners == {w.user_id : w \in {x \in workouts : x.id = wid}}
           row == [id |-> issued.set + 1, workout |-> wid, exercise |-> data.exercise,
                   set_number |-> data.set_number, reps |-> data.reps]
           answer(st) == [kind |-> "set_create", status |-> st, user_id |-> u,
                          workout |-> wid, id |-> 0, data |-> data, result |-> {}]
       IN  IF owners = {}
           THEN /\ resp' = answer(500)
                /\ UNCHANGED <<wsets, issued>>
           ELSE IF owners # {u}
           THEN /\ \E st \in DeniedStatuses : resp' = answer(st)
                /\ UNCHANGED <<wsets, issued>>
           ELSE IF SetClash(wsets, row)
           THEN /\ resp' = answer(500)
                /\ UNCHANGED <<wsets, issued>>
           ELSE /\ wsets' = wsets \cup {row}
                /\ issued' = [issued EXCEPT !.set = row.id]
                /\ resp' = [kind |-> "set_create", status |-> 201, user_id |-> u,
                            workout |-> wid, id |-> row.id, data |-> data, result |-> {row}]
    /\ UNCHANGED <<goals, entries, foods, work, authVars, workouts>>

\* WorkoutSetViewSet.update: PUT /workouts/<wid>/sets/<sid>/.  The set is
\* looked up among the sets of the workout in the URL, whoever owns it.
SetUpdate(u, wid, sid, data) ==
    /\ Ready
    /\ LET found == {s \in SetsOf(wid) : s.id = sid}
           answer(st) == [kind |-> "set_update", status |-> st, user_id |-> u,
                          workout |-> wid, id |-> sid, data |-> data, result |-> {}]
       IN  IF found = {}
           THEN /\ resp' = answer(404)
                /\ wsets' = wsets
           ELSE LET changed == {[s EXCEPT !.exercise = data.exercise,
                                          !.set_number = data.set_number,
                                          !.reps = data.reps] : s \in found}
                IN  IF \E row \in changed : SetClash(wsets, row)
                    THEN /\ resp' = answer(500)
                         /\ wsets' = wsets
                    ELSE /\ resp' = [answer(200) EXCEPT !.result = changed]
                         /\ wsets' = (wsets \ found) \cup changed
    /\ UNCHANGED <<goals, entries, foods, work, authVars, workouts, issued>>

\* WorkoutSetViewSet.destroy: DELETE /workouts/<wid>/sets/<sid>/.
SetDelete(u, wid, sid) ==
    /\ Ready
    /\ LET found == {s \in SetsOf(wid) : s.id = sid}
       IN  /\ wsets' = wsets \ found
           /\ resp' = [kind |-> "set_delete", status |-> IF found = {} THEN 404 ELSE 204,
                       user_id |-> u, workout |-> wid, id |-> sid, result |-> {}]
    /\ UNCHANGED <<goals, entries, foods, work, authVars, workouts, issued>>

WoInit ==
    /\ workouts = {}
    /\ wsets = {}
    /\ issued = [workout |-> 0, set |-> 0]

-----------------------------------------------------------------------------
(* Specifications *)

Init == AuthInit /\ NutInit /\ WoInit

\* Identity resolution: requests arriving and running concurrently.
Next ==
    \/ \E i \in Reqs, header \in Headers : Authenticate(i, header)
    \/ \E i \in Reqs : Create(i)
    \/ \E i \in Reqs : ReGet(i)

Spec == Init /\ [][Next]_vars

\* Nutrition: requests of resolved users, each handled as a whole.
NextNutrition ==
    \/ \E u \in Users, inp \in EntryInputs, d \in Days :
          Len(entries) < MaxEntries /\ CreateEntry(u, inp, d)
    \/ \E u \in Users, t \in TargetInputs : CreateGoal(u, t)
    \/ \E u \in Users, t \in TargetInputs : UpdateGoal(u, t)
    \/ \E u \in Users, dp \in DateParams : Summary(u, dp)
    \/ Respond

InitNutrition == Init /\ secret = "unset"

SpecNutrition == InitNutrition /\ [][NextNutrition]_vars

\* Goals: summaries and current-goal requests run by concurrent workers,
\* beside goal creations and updates.
NextGoals ==
    \/ \E w \in Workers, u \in Users, dp \in {NoDate, BadDateParam} : SummaryGet(w, u, dp)
    \/ \E w \in Workers, u \in Users : CurrentGet(w, u)
    \/ \E w \in Workers : GoalCreate(w)
    \/ \E w \in Workers : WorkerReturn(w)
    \/ \E u \in Users, t \in PositiveCalorieTargets : CreateGoal(u, t)
    \/ \E u \in Users, t \in PositiveCalorieTargets : UpdateGoal(u, t)
    \/ Respond

SpecGoals == InitNutrition /\ [][NextGoals]_vars

\* Snapshots: entries logged and updated while foods are edited.
NextSnapshot ==
    \/ \E u \in Users, inp \in EntryInputs \cup OddEntryInputs :
          Len(entries) < MaxEntries /\ CreateEntry(u, inp, Today)
    \/ \E u \in Users, k \in 1..MaxEntries, sv \in ServingInputs : UpdateEntry(u, k, sv)
    \/ \E f \in EditedFoods, n \in EditedNutrients, v \in FoodEdits : EditFood(f, n, v)
    \/ Respond

SpecSnapshot == InitNutrition /\ [][NextSnapshot]_vars

\* The weekly summary over entries dated around the edges of its window.
NextWeekly ==
    \/ \E u \in Users, inp \in EntryInputs, d \in WeeklyDays :
          Len(entries) < MaxEntries /\ CreateEntry(u, inp, d)
    \/ \E u \in Users : Weekly(u)
    \/ Respond

SpecWeekly == InitNutrition /\ [][NextWeekly]_vars

\* Frequently used foods over entries inside and outside the 30 days.
NextFrequent ==
    \/ \E u \in Users, inp \in EntryInputs, d \in FrequentDays :
          Len(entries) < MaxLogged /\ CreateEntry(u, inp, d)
    \/ \E u \in Users, lp \in LimitParams : FrequentlyUsed(u, lp)
    \/ Respond

SpecFrequent == InitNutrition /\ [][NextFrequent]_vars

-----------------------------------------------------------------------------
(* Properties of identity resolution *)

Started(i) == req[i].pc # "idle"
Done(i) == req[i].pc = "done"
Scheme(i, name) == Len(req[i].header) >= 2 /\ req[i].header[1] = <<name>>
Credential(i) == req[i].header[2]
HasSubject(i) == req[i].lookup.kind = "lookup"
Subject(i) == req[i].lookup.user_id

\* The text of s before its first c, all of s when it holds no c.
BeforeFirst(s, c) ==
    LET n == CHOOSE k \in 0..Len(s) :
                /\ \A m \in 1..k : s[m] # c
                /\ (k = Len(s) \/ s[k + 1] = c)
    IN  [m \in 1..n |-> s[m]]

\* A token of three segments whose header and payload segments decode.
Structured(t) == Len(t) = 3 /\ t[1] = "H" /\ t[2] \in DOMAIN PayloadClaims

\* A structured token's payload carries both a subject and an email.
CarriesSubjectAndEmail(t) ==
    LET c == PayloadClaims[t[2]]
    IN  c.has_sub /\ c.sub # Empty /\ c.has_email /\ c.email # Empty

\* C1: Two concurrent first contacts of one subject converge: whenever a
\* resolution that extracted a subject has ended it has succeeded, the table
\* holds exactly one row for that subject and the resolution returned that
\* row, so any two resolutions of the subject return the same row with the
\* same email and display name.
C1_ConcurrentFirstContactsConverge ==
    /\ \A p \in profiles : Cardinality(RowsOf(p.user_id)) = 1
    /\ \A i \in Reqs :
          (Done(i) /\ HasSubject(i)) =>
              /\ req[i].result = "ok"
              /\ Cardinality(RowsOf(Subject(i))) = 1
              /\ req[i].row = RowsOf(Subject(i))
    /\ \A i, j \in Reqs :
          (Done(i) /\ Done(j) /\ HasSubject(i) /\ HasSubject(j) /\ Subject(i) = Subject(j)) =>
              req[i].row = req[j].row

\* Two requests raced on a new subject with different emails: one inserted,
\* the other's insert was refused and it read the row again.
C1_Witness ==
    \E i, j \in Reqs :
        /\ Done(i) /\ Done(j)
        /\ req[i].path = "create" /\ req[j].path = "reget"
        /\ Subject(i) = Subject(j)
        /\ req[i].lookup.email # req[j].lookup.email
        /\ req[i].row = req[j].row

\* C2: A resolution that ends for a subject whose row is already stored
\* succeeds, returns exactly the stored row and changes no row, whatever email
\* its credential carries; and no step ever changes or removes a stored row.
C2_RepeatResolutionStable ==
    [][ /\ profiles \subseteq profiles'
        /\ \A i \in Reqs :
              (~Done(i) /\ Done(i)' /\ HasSubject(i)' /\ RowsOf(Subject(i)') # {}) =>
                  /\ profiles' = profiles
                  /\ req'[i].result = "ok"
                  /\ req'[i].row = RowsOf(Subject(i)')
      ]_vars

\* A later credential with another email resolved to the row as first stored.
C2_Witness ==
    \E i \in Reqs :
        /\ Done(i) /\ req[i].path = "get"
        /\ \E p \in req[i].row : p.email # req[i].lookup.email
        /\ req[i].row \subseteq profiles

\* Whether the signature segment verifies under the configured secret.
SignatureVerifies(token, key) == key = "k" /\ token[3] = "S_k"

BadSignatureBearer(i) ==
    /\ secret # "unset"
    /\ Scheme(i, "Bearer")
    /\ Structured(Credential(i))
    /\ ~SignatureVerifies(Credential(i), secret)

\* C3 as stated: with a secret configured, a structured bearer token whose
\* signature does not verify is rejected and resolves to no identity.
C3_BadSignatureRejected ==
    \A i \in Reqs :
        (Done(i) /\ BadSignatureBearer(i)) =>
            /\ req[i].result = "fail"
            /\ req[i].row = {}
            /\ req[i].path = "none"

\* C3 amended: a structured bearer token is resolved from its payload alone,
\* whether or not a secret is configured and whether or not the signature
\* verifies: it resolves to the identity of its subject claim when the payload
\* carries subject and email, and is rejected exactly when one of them is
\* missing or empty.
C3_SignatureNeverChecked ==
    \A i \in Reqs :
        (Done(i) /\ Scheme(i, "Bearer") /\ Structured(Credential(i))) =>
            IF CarriesSubjectAndEmail(Credential(i))
            THEN /\ req[i].result = "ok"
                 /\ \A p \in req[i].row : p.user_id = PayloadClaims[Credential(i)[2]].sub
                 /\ req[i].row # {}
            ELSE /\ req[i].result = "fail"
                 /\ req[i].row = {}

\* A bearer token with a bad signature resolved while a secret was configured.
C3_Witness ==
    \E i \in Reqs :
        /\ Done(i) /\ BadSignatureBearer(i)
        /\ req[i].result = "ok"
        /\ req[i].path = "create"

LacksSubjectOrEmail(i) ==
    /\ Scheme(i, "Bearer") \/ Scheme(i, "Token")
    /\ Structured(Credential(i))
    /\ ~CarriesSubjectAndEmail(Credential(i))

\* C4: every structured token whose payload lacks a subject or an email ends
\* in an authentication failure: no identity is returned and no row is created
\* for it.
C4_MissingClaimRejected ==
    \A i \in Reqs :
        (Done(i) /\ LacksSubjectOrEmail(i)) =>
            /\ req[i].result = "fail"
            /\ req[i].row = {}
            /\ req[i].path = "none"

\* C5: a credential that decodes as a structured token carrying subject and
\* email resolves, under either scheme, to the identity of its subject claim.
C5_StructuredShapeFirst ==
    \A i \in Reqs :
        (Done(i) /\ (Scheme(i, "Bearer") \/ Scheme(i, "Token"))
                 /\ Structured(Credential(i)) /\ CarriesSubjectAndEmail(Credential(i))) =>
            /\ req[i].result = "ok"
            /\ Subject(i) = PayloadClaims[Credential(i)[2]].sub
            /\ \A p \in req[i].row : p.user_id = PayloadClaims[Credential(i)[2]].sub

\* A credential resolved as an opaque simple token.
ResolvedAsSimpleToken(i) ==
    /\ HasSubject(i)
    /\ \/ req[i].by = "SimpleTokenAuthentication"
       \/ req[i].by = "SupabaseAuthentication" /\ ~Structured(Credential(i))

\* C6: for a credential resolved as an opaque simple token the subject is the
\* part of the token before its first ':' (the whole token without ':'), and a
\* row created for it has the email <subject>@example.com.  The simple-token
\* branch of SupabaseAuthentication computes the same subject and email.
C6_SimpleTokenSubject ==
    /\ \A i \in Reqs :
          ResolvedAsSimpleToken(i) =>
              /\ Subject(i) = BeforeFirst(Credential(i), ":")
              /\ req[i].path = "create" =>
                    \A p \in req[i].row :
                        /\ p.user_id = BeforeFirst(Credential(i), ":")
                        /\ p.email = BeforeFirst(Credential(i), ":") \o <<"@", "example.com">>
    /\ \A t \in Tokens :
          ~Structured(t) =>
              LET l == SupabaseAuthentication(<<<<"Token">>, t>>)
              IN  /\ l.kind = "lookup"
                  /\ l.user_id = BeforeFirst(t, ":")
                  /\ l.email = BeforeFirst(t, ":") \o <<"@", "example.com">>

\* "abc:xyz"-shaped and "abc"-shaped tokens both created or found subject "a".
C6_Witness ==
    \E i, j \in Reqs :
        /\ Done(i) /\ Scheme(i, "Token") /\ Credential(i) = <<"a", ":", "z">>
        /\ req[i].path = "create"
        /\ \E p \in req[i].row : p.user_id = <<"a">> /\ p.email = <<"a", "@", "example.com">>
        /\ Done(j) /\ Scheme(j, "Token") /\ Credential(j) = <<"a">> /\ req[j].row = req[i].row

\* C7: an identity created on first sight has the extracted or synthesized
\* email and, as display name, the local part of that email.
C7_DisplayNameIsLocalPart ==
    \A i \in Reqs :
        (Done(i) /\ req[i].path = "create") =>
            \A p \in req[i].row :
                /\ p.email = req[i].lookup.email
                /\ p.display_name = BeforeFirst(p.email, "@")

NoCredentialScheme(i) == ~Scheme(i, "Bearer") /\ ~Scheme(i, "Token")

UndecodableBearer(i) == Scheme(i, "Bearer") /\ ~Structured(Credential(i))

\* C9: a Bearer credential that does not decode as a structured token is
\* rejected with a reason; it is never read as a simple token, no row is
\* created and nothing is attached.
C9_UndecodableBearerRejected ==
    \A i \in Reqs :
        (Started(i) /\ UndecodableBearer(i)) =>
            /\ Done(i)
            /\ req[i].result = "fail"
            /\ req[i].reason # ""
            /\ ~HasSubject(i)
            /\ req[i].row = {}
            /\ req[i].path = "none"
            /\ req[i].user_id_attr = {} /\ req[i].auth_attr = {}

\* A Bearer credential "a" was rejected although "Token a" resolves.
C9_Witness ==
    \E i, j \in Reqs :
        /\ Done(i) /\ Scheme(i, "Bearer") /\ Credential(i) = <<"a">> /\ req[i].result = "fail"
        /\ Done(j) /\ Scheme(j, "Token") /\ Credential(j) = <<"a">> /\ req[j].result = "ok"

-----------------------------------------------------------------------------
(* Properties of the daily summary *)

\* The day a summary request is about.
RequestedDay(dp) == IF dp.kind = "date" THEN dp.day ELSE Today

\* The stored entries of user u dated d.
LoggedOn(u, d) == {k \in DOMAIN entries : entries[k].user_id = u /\ entries[k].date = d}

SummaryAnswered == resp.kind = "summary" /\ resp.param.kind # "malformed"

\* C10: a daily summary for a user and date with no logged entries succeeds
\* with all seven totals 0 and all four progress percentages 0, whatever goal
\* the user has (none yet, the default one, or one with any targets).
C10_EmptyDayAllZero ==
    (SummaryAnswered /\ LoggedOn(resp.user_id, RequestedDay(resp.param)) = {}) =>
        /\ resp.status = 200
        /\ resp.date = RequestedDay(resp.param)
        /\ \A n \in Nutrients : resp.totals[n] = 0
        /\ resp.calorie_progress = 0 /\ resp.protein_progress = 0
        /\ resp.carbs_progress = 0 /\ resp.fat_progress = 0

\* An empty day was summarized for a user with positive custom targets who
\* has an entry on another day, while another user has an entry on that day.
C10_Witness ==
    /\ SummaryAnswered /\ resp.status = 200
    /\ LoggedOn(resp.user_id, resp.date) = {}
    /\ resp.calorie_goal = 3 /\ resp.protein_goal = 300
    /\ \E k \in DOMAIN entries : entries[k].user_id = resp.user_id /\ entries[k].date # resp.date
    /\ \E k \in DOMAIN entries : entries[k].user_id # resp.user_id /\ entries[k].date = resp.date
    /\ \A n \in Nutrients : resp.totals[n] = 0

-----------------------------------------------------------------------------
(* Properties of the progress percentages and totals *)

SummaryOk == resp.kind = "summary" /\ resp.status = 200

\* The four nutrients a progress percentage is reported for, each with the
\* total, the target and the percentage of the response.
ProgressRows ==
    {[total |-> resp.totals["calories"], target |-> resp.calorie_goal, progress |-> resp.calorie_progress],
     [total |-> resp.totals["protein"],  target |-> resp.protein_goal, progress |-> resp.protein_progress],
     [total |-> resp.totals["carbs"],    target |-> resp.carbs_goal,   progress |-> resp.carbs_progress],
     [total |-> resp.totals["fat"],      target |-> resp.fat_goal,     progress |-> resp.fat_progress]}

\* p is an integer nearest to n/d (d > 0); at a tie either neighbour is.
NearestTo(p, n, d) ==
    LET e == p * d - n
    IN  IF e >= 0 THEN 2 * e <= d ELSE 2 * (0 - e) <= d

\* C11: for each of calories, protein, carbs and fat whose target is positive,
\* the progress percentage is total / target * 100 rounded to the nearest
\* integer.
C11_ProgressRounded ==
    SummaryOk =>
        \A r \in ProgressRows :
            r.target > 0 => NearestTo(r.progress, r.total * 100, r.target)

\* C12: for each of calories, protein, carbs and fat whose target is zero or
\* negative the progress percentage is 0 whatever the total, and the summary
\* of a well-formed request answers 200.
C12_NonPositiveTargetIsZero ==
    SummaryAnswered =>
        /\ resp.status = 200
        /\ \A r \in ProgressRows : r.target <= 0 => r.progress = 0

\* A summary with logged totals was answered for a goal that has a zero and a
\* negative target beside a positive one with non-zero progress.
C12_Witness ==
    /\ SummaryOk
    /\ resp.calorie_goal = 2500 /\ resp.totals["calories"] > 0 /\ resp.calorie_progress > 0
    /\ resp.protein_goal = 0 /\ resp.totals["protein"] > 0 /\ resp.protein_progress = 0
    /\ resp.fat_goal < 0 /\ resp.totals["fat"] > 0 /\ resp.fat_progress = 0

\* The sum of nutrient n over the stored entries at positions ks.
RECURSIVE SnapshotSum(_, _)
SnapshotSum(ks, n) ==
    IF ks = {} THEN 0
    ELSE LET k == CHOOSE x \in ks : \A y \in ks : x <= y
         IN  entries[k].snapshot[n] + SnapshotSum(ks \ {k}, n)

\* C13: each of the seven totals of the daily summary for (user, date) is the
\* sum of that nutrient's stored snapshot over exactly the entries of that
\* user dated that day.
C13_TotalsAreSumsOfOwnEntries ==
    SummaryOk =>
        \A n \in Nutrients :
            resp.totals[n] = SnapshotSum(LoggedOn(resp.user_id, resp.date), n)

\* A summary counted the one entry of its user while the other stored entry
\* belongs to another user on the same day.
C13_Witness ==
    /\ SummaryOk
    /\ Len(entries) = 2
    /\ entries[1].user_id = resp.user_id /\ entries[1].date = resp.date
    /\ entries[2].user_id # resp.user_id /\ entries[2].date = resp.date
    /\ resp.totals["calories"] = entries[1].snapshot["calories"]
    /\ entries[2].snapshot["calories"] > 0

\* C14: a summary request whose date parameter is malformed is answered 400
\* with an error that names the expected format, and handling it changes no
\* stored row: no goal is created for its user.
C14_MalformedDateRejected ==
    [][ (Ready /\ resp'.kind = "summary" /\ resp'.param.kind = "malformed") =>
            /\ resp'.status = 400
            /\ resp'.error = "Invalid date format. Use YYYY-MM-DD"
            /\ goals' = goals
            /\ entries' = entries
            /\ foods' = foods
            /\ profiles' = profiles
      ]_vars

\* A malformed request of a user without a goal was rejected and the user
\* still has no goal, while the other user has one.
C14_Witness ==
    /\ resp.kind = "summary" /\ resp.status = 400
    /\ GoalsOf(resp.user_id) = {}
    /\ goals # {}

-----------------------------------------------------------------------------
(* Properties of the goal records *)

WorkDone(w) == work[w].pc = "done"

\* Worker w has finished a well-formed summary or a current-goal request.
WellFormedDone(w) ==
    /\ WorkDone(w)
    /\ work[w].kind = "current" \/ work[w].param.kind # "malformed"

\* Every stored goal is one a summary or current-goal request created.
OnlyLazyGoals == \A g \in goals : g = DefaultGoal(g.user_id)

\* C15: the summary has no error outcome beside the malformed date: while
\* the only goals stored are lazily created ones, every well-formed summary
\* or current-goal request, also one racing with another for a user without
\* a goal, is answered 200 against a goal holding the default targets.
C15_LazyGoalNeverFails ==
    OnlyLazyGoals =>
        \A w \in Workers :
            WellFormedDone(w) =>
                /\ work[w].body.status = 200
                /\ DefaultGoal(work[w].user_id) \in goals

\* The targets of goal g are those of goal h.
SameTargets(g, h) ==
    /\ g.calorie_target = h.calorie_target /\ g.protein_target = h.protein_target
    /\ g.carbs_target = h.carbs_target /\ g.fat_target = h.fat_target
    /\ g.fiber_target = h.fiber_target /\ g.sugar_target = h.sugar_target
    /\ g.sodium_target = h.sodium_target /\ g.goal_type = h.goal_type

\* A goal creation was attempted by this step and refused.
CreateRefused ==
    \/ Ready /\ resp'.kind = "goal" /\ resp'.status = 500
    \/ \E w \in Workers : work[w].pc = "create" /\ work'[w].body.status = 500

\* C16: in every state each user has at most one goal; a goal once stored is
\* changed only by an update of its owner, and a creation attempted for a
\* user who has a goal is refused and leaves every goal as it was.
C16_OneGoalPerUser ==
    [][ /\ \A u \in Users : Cardinality({g \in goals' : g.user_id = u}) <= 1
        /\ \A g \in goals :
              \/ g \in goals'
              \/ Ready /\ resp'.kind = "goal" /\ resp'.status = 200 /\ resp'.user_id = g.user_id
        /\ \A g \in goals :
              (Ready /\ resp'.kind = "goal" /\ resp'.user_id = g.user_id /\ resp'.status # 200) =>
                  resp'.status = 500
        /\ CreateRefused => goals' = goals
      ]_vars

\* A creation was refused for a user whose goal holds targets of their own,
\* and a worker's default creation was refused as well.
C16_Witness ==
    /\ resp.kind = "goal" /\ resp.status = 500
    /\ \E g \in goals : g.user_id = resp.user_id /\ ~SameTargets(g, DefaultGoal(g.user_id))
    /\ \A u \in Users : Cardinality({g \in goals : g.user_id = u}) = 1
    /\ \E w \in Workers : WorkDone(w) /\ work[w].body.status = 500

-----------------------------------------------------------------------------
(* Properties of the nutrient snapshots *)

\* C17: once an entry is stored its seven snapshot fields keep the values
\* they had at creation, whatever edits of foods and updates of the entry
\* follow, also where such a value is 0.
C17_SnapshotImmutable ==
    [][ \A k \in 1..Len(entries) : entries'[k].snapshot = entries[k].snapshot ]_vars

\* This step stored a new entry.
EntryCreated == Len(entries') = Len(entries) + 1

\* s is n/100 cut to an integer (n >= 0).
CutOf(s, n) == s * 100 <= n /\ n < (s + 1) * 100

\* s is n/100 rounded to the nearest integer, a tie going to the even one.
HalfEvenOf(s, n) ==
    LET e == s * 100 - n
    IN  /\ e <= 50 /\ e >= 0 - 50
        /\ (e = 50 \/ e = 0 - 50) => s % 2 = 0

\* C18 as stated: each snapshot field of a new entry is the food's value per
\* serving times the servings, calories cut to an integer.
C18_SnapshotIsProduct ==
    [][ EntryCreated =>
            LET e == entries'[Len(entries')]
                f == foods[e.food_item]
            IN  /\ CutOf(e.snapshot["calories"], f["calories"] * e.servings)
                /\ \A n \in Nutrients \ {"calories"} :
                      e.snapshot[n] * 100 = f[n] * e.servings
      ]_vars

\* C18 amended: each snapshot field of a new entry is the food's value per
\* serving at that moment times the servings, calories cut to an integer and
\* the six others rounded half-even to the two decimal places of their
\* column; values the client posts for snapshot fields have no effect.
C18_SnapshotIsRoundedProduct ==
    [][ EntryCreated =>
            LET e == entries'[Len(entries')]
                f == foods[e.food_item]
            IN  /\ CutOf(e.snapshot["calories"], f["calories"] * e.servings)
                /\ \A n \in Nutrients \ {"calories"} :
                      HalfEvenOf(e.snapshot[n], f[n] * e.servings)
      ]_vars

\* An entry posted with snapshot values of its own was stored with computed
\* ones, among them a fiber value that had to be rounded.
C18_Witness ==
    \E k \in 1..Len(entries) :
        /\ entries[k].meal_type = "Snack"
        /\ entries[k].snapshot["fiber"] = 28
        /\ entries[k].snapshot["calories"] = 47
        /\ foods[entries[k].food_item]["fiber"] = 55
        /\ resp.kind = "meal" /\ resp.status = 201 /\ resp.id = entries[k].id

-----------------------------------------------------------------------------
(* Properties of the weekly summary and of the frequently used foods *)

WeeklyAnswered == resp.kind = "weekly"

\* C19: the weekly summary returns exactly 7 rows, one for each day from
\* today minus 6 through today in ascending order; each row holds the sums
\* over the user's entries of that day, so a day without entries is all 0 and
\* entries dated outside the window are counted in no row.
C19_WeeklyHasSevenDays ==
    WeeklyAnswered =>
        /\ resp.status = 200
        /\ Len(resp.result) = 7
        /\ \A i \in 1..Len(resp.result) :
              LET row == resp.result[i]
                  own == LoggedOn(resp.user_id, row.date)
              IN  /\ row.date = Today - 7 + i
                  /\ i > 1 => resp.result[i - 1].date < row.date
                  /\ row.calories = SnapshotSum(own, "calories")
                  /\ row.protein = SnapshotSum(own, "protein")
                  /\ row.carbs = SnapshotSum(own, "carbs")
                  /\ row.fat = SnapshotSum(own, "fat")
                  /\ own = {} => (row.calories = 0 /\ row.protein = 0 /\ row.carbs = 0 /\ row.fat = 0)

\* A week was summarized for a user with one entry on its first day and one
\* on the day before it.
C19_Witness ==
    /\ WeeklyAnswered
    /\ Len(resp.result) = 7
    /\ \E j, k \in DOMAIN entries :
          /\ entries[j].user_id = resp.user_id /\ entries[j].date = Today - 7
          /\ entries[k].user_id = resp.user_id /\ entries[k].date = Today - 6
          /\ resp.result[1].calories = entries[k].snapshot["calories"]
          /\ entries[j].snapshot["calories"] > 0
    /\ \A i \in 2..7 : resp.result[i].calories = 0

FrequentAnswered == resp.kind = "frequent" /\ resp.param.kind # "malformed"

\* The entries of user u dated within the last 30 days.
InScope(u) == {k \in DOMAIN entries : entries[k].user_id = u /\ entries[k].date >= Today - 30}

\* The sum of the servings of the entries ks that name food f.
RECURSIVE ServingsOf(_, _)
ServingsOf(ks, f) ==
    IF ks = {} THEN 0
    ELSE LET k == CHOOSE x \in ks : \A y \in ks : x <= y
         IN  (IF entries[k].food_item = f THEN entries[k].servings ELSE 0)
                 + ServingsOf(ks \ {k}, f)

RequestedLimit == IF resp.param.kind = "number" THEN resp.param.value ELSE 10

InTrailingWindow(u) ==
    {k \in DOMAIN entries :
        entries[k].user_id = u /\ entries[k].date >= Today - 30 /\ entries[k].date <= Today}

\* C21: only the requesting user's entries dated within the trailing 30 days
\* ending today count for the frequently-used ranking: the foods returned are
\* foods of those entries, by descending sum of servings over those entries,
\* so an entry of another user, an older entry or an entry dated after today
\* changes neither the foods nor their order.
C21_OnlyTrailingWindowCounts ==
    FrequentAnswered =>
        LET ks == InTrailingWindow(resp.user_id)
            fs == {entries[k].food_item : k \in ks}
            r == resp.result
        IN  /\ \A i \in 1..Len(r) : r[i] \in fs
            /\ \A i, j \in 1..Len(r) : i < j => ServingsOf(ks, r[i]) >= ServingsOf(ks, r[j])
            /\ Len(r) = (IF RequestedLimit < Cardinality(fs) THEN RequestedLimit ELSE Cardinality(fs))

-----------------------------------------------------------------------------
(* Meal grouping of the daily summary *)

\* A further post: a second breakfast food, eaten earlier than the first.
MealInputs ==
    {[food_item |-> "Banana", servings |-> 50, servings_given |-> TRUE,
      meal_type |-> "Breakfast", time |-> 6, posted |-> NothingPosted]}

\* Today's summary over entries of one day that share meal types.
NextMeals ==
    \/ \E u \in Users, inp \in EntryInputs \cup MealInputs :
          Len(entries) < MaxLogged /\ CreateEntry(u, inp, Today)
    \/ \E u \in Users : Summary(u, NoDate)
    \/ Respond

SpecMeals == InitNutrition /\ [][NextMeals]_vars

\* The ids met in a group, and how often id occurs in it.
Occurrences(g, id) == Cardinality({i \in 1..Len(g) : g[i] = id})

\* C22: in the daily summary's meal grouping every entry of (user, date)
\* appears exactly once, in the group keyed by its meal type's name and in no
\* other; no group is empty; and within each group the entries are in fetch
\* order, by time within the date.
C22_MealsGroupedInOrder ==
    SummaryOk =>
        LET ks == LoggedOn(resp.user_id, resp.date)
            meals == resp.meals
        IN  /\ DOMAIN meals = {entries[k].meal_type : k \in ks}
            /\ \A m \in DOMAIN meals : meals[m] # <<>>
            /\ \A m \in DOMAIN meals : \A i \in 1..Len(meals[m]) : meals[m][i] \in ks
            /\ \A k \in ks : \A m \in DOMAIN meals :
                  Occurrences(meals[m], k) = (IF entries[k].meal_type = m THEN 1 ELSE 0)
            /\ \A m \in DOMAIN meals : \A i, j \in 1..Len(meals[m]) :
                  i < j => entries[meals[m][i]].time <= entries[meals[m][j]].time

\* A summary whose breakfast group holds the later-logged, earlier-eaten entry
\* first, beside a lunch group.
C22_Witness ==
    /\ SummaryOk
    /\ "Lunch" \in DOMAIN resp.meals
    /\ "Breakfast" \in DOMAIN resp.meals
    /\ Len(resp.meals["Breakfast"]) = 2
    /\ resp.meals["Breakfast"][1] > resp.meals["Breakfast"][2]

-----------------------------------------------------------------------------
(* Properties of the subject identifier *)

\* The Token-scheme credential of request i yields the empty subject: the
\* token is empty or begins with ':'.
EmptySubjectToken(i) ==
    Scheme(i, "Token") /\ BeforeFirst(Credential(i), ":") = Empty

\* C30: every identity the resolver returns or creates has a non-empty
\* subject identifier: no stored row has the empty user_id, and a Token-scheme
\* credential whose token is empty or begins with ':' is rejected.
C30_SubjectNonEmpty ==
    /\ \A p \in profiles : p.user_id # Empty
    /\ \A i \in Reqs :
          (Done(i) /\ req[i].result = "ok") => \A p \in req[i].row : p.user_id # Empty
    /\ \A i \in Reqs :
          (Done(i) /\ EmptySubjectToken(i)) => req[i].result = "fail"

\* Workouts created, read, changed and deleted by the users.
NextWorkouts ==
    \/ \E u \in Users, post \in WorkoutPosts :
          /\ issued.workout < MaxWorkouts
          /\ issued.set + Len(post.sets) <= MaxSets
          /\ WorkoutCreate(u, post)
    \/ \E u \in Users, id \in WorkoutIds : WorkoutRetrieve(u, id)
    \/ \E u \in Users : WorkoutList(u)
    \/ \E u \in Users, id \in WorkoutIds, patch \in WorkoutPatches : WorkoutUpdate(u, id, patch)
    \/ \E u \in Users, id \in WorkoutIds : WorkoutDelete(u, id)
    \/ Respond

SpecWorkouts == InitNutrition /\ [][NextWorkouts]_vars

\* The nested set endpoints over workouts of both users.
NextSets ==
    \/ \E u \in Users :
          /\ issued.workout < MaxWorkouts
          /\ WorkoutCreate(u, [name |-> "Legs", date |-> Today, sets |-> <<>>])
    \/ \E u \in Users, wid \in WorkoutIds : SetList(u, wid)
    \/ \E u \in Users, wid \in WorkoutIds, sid \in SetIds : SetRetrieve(u, wid, sid)
    \/ \E u \in Users, wid \in WorkoutIds, data \in SetInputs :
          issued.set < MaxSets /\ SetCreate(u, wid, data)
    \/ \E u \in Users, wid \in WorkoutIds, sid \in SetIds, data \in SetInputs :
          SetUpdate(u, wid, sid, data)
    \/ \E u \in Users, wid \in WorkoutIds, sid \in SetIds : SetDelete(u, wid, sid)
    \/ Respond

SpecSets == InitNutrition /\ [][NextSets]_vars

\* The history over workouts dated around the edges of its period.
NextHistory ==
    \/ \E u \in Users, d \in HistoryDates :
          /\ issued.workout < MaxWorkouts
          /\ WorkoutCreate(u, [name |-> "Legs", date |-> d, sets |-> <<>>])
    \/ \E u \in Users, hp \in HistoryParams : History(u, hp)
    \/ Respond

SpecHistory == InitNutrition /\ [][NextHistory]_vars

\* Foods created and updated by the users.
NextFoods ==
    \/ \E u \in Users, post \in FoodPosts : CustomCount < MaxCustom /\ CreateFood(u, post)
    \/ \E u \in Users, f \in FoodIds, patch \in FoodPatches : UpdateFood(u, f, patch)
    \/ Respond

SpecFoods == InitNutrition /\ [][NextFoods]_vars

\* C26: every food flagged as custom records a creator, whatever creates,
\* updates and partial updates were made, and a food created through the API
\* is flagged custom with created_by equal to the creating user.
C26_CustomFoodsHaveCreator ==
    /\ \A f \in DOMAIN foods : foods[f].is_custom => foods[f].created_by # {}
    /\ (resp.kind = "food" /\ resp.status = 201) =>
          /\ foods[resp.food_item].is_custom
          /\ foods[resp.food_item].created_by = {resp.user_id}

-----------------------------------------------------------------------------
(* Properties of workouts and their sets *)

\* The stored workouts with id `id` whose owner is not u.
OthersWorkout(u, id) == {w \in workouts : w.id = id /\ w.user_id # u}

\* C23: retrieving, updating or deleting by id a workout owned by a
\* different user answers 404 and leaves the workout and its sets as they
\* were, and a listing holds workouts of the requesting user only.
C23_OthersWorkoutNotFound ==
    [][ /\ ( /\ Ready
             /\ resp'.kind \in {"workout_retrieve", "workout_update", "workout_delete"}
             /\ OthersWorkout(resp'.user_id, resp'.id) # {} ) =>
                 /\ resp'.status = 404
                 /\ workouts' = workouts
                 /\ wsets' = wsets
        /\ (Ready /\ resp'.kind = "workout_list") =>
                 /\ \A w \in resp'.result : w.user_id = resp'.user_id
                 /\ workouts' = workouts
                 /\ wsets' = wsets
      ]_vars

\* A delete of the other user's workout, which has sets, was answered 404
\* and the workout and its sets are stored.
C23_Witness ==
    /\ resp.kind = "workout_delete" /\ resp.status = 404
    /\ \E w \in workouts :
          /\ w.id = resp.id /\ w.user_id # resp.user_id
          /\ Cardinality({s \in wsets : s.workout = w.id}) = 2

\* This step handled a request to the nested set endpoints.
SetRequestAnswered ==
    Ready /\ resp'.kind \in {"set_list", "set_retrieve", "set_create", "set_update", "set_delete"}

\* The sets, other than the one the request names, that hold the workout,
\* exercise and set_number the request asks for.
Clashing ==
    {s \in wsets :
        /\ s.id # resp'.id
        /\ s.workout = resp'.workout
        /\ s.exercise = resp'.data.exercise
        /\ s.set_number = resp'.data.set_number}

\* C24: a create or renumbering through the set API that asks for the
\* (workout, exercise, set_number) of another stored set is rejected with a
\* validation error (400) and the stored sets are unchanged; no two stored
\* sets share (workout, exercise, set_number).
C24_DuplicateSetIsValidationError ==
    [][ /\ ( /\ Ready
             /\ \/ resp'.kind = "set_create" /\ OthersWorkout(resp'.user_id, resp'.workout) = {}
                \/ resp'.kind = "set_update" /\ resp'.status # 404
             /\ Clashing # {} ) =>
                 /\ resp'.status = 400
                 /\ wsets' = wsets
        /\ \A s, t \in wsets' :
              (s.workout = t.workout /\ s.exercise = t.exercise /\ s.set_number = t.set_number)
                  => s = t
      ]_vars

\* The days the history was asked for.
RequestedDays == IF resp.param.kind = "number" THEN resp.param.value ELSE 30

\* C25: the history with a period of N days (30 by default) returns exactly
\* the requesting user's workouts of the last N days, today included, in
\* ascending date order; with N = 2, today's and yesterday's only.
C25_HistoryIsLastNDays ==
    resp.kind = "history" =>
        LET r == resp.result
            expected == {w \in workouts :
                            /\ w.user_id = resp.user_id
                            /\ w.date > Today - RequestedDays
                            /\ w.date <= Today}
        IN  /\ resp.status = 200
            /\ {r[i] : i \in 1..Len(r)} = expected
            /\ Len(r) = Cardinality(expected)
            /\ \A i, j \in 1..Len(r) : i < j => r[i].date <= r[j].date

\* C27: every request to the nested set endpoints that names a workout of a
\* different user (to create a set in it, or to list, retrieve, update or
\* delete while it has sets) fails and leaves the stored sets as they were.
C27_OthersSetsOutOfReach ==
    [][ ( /\ SetRequestAnswered
          /\ OthersWorkout(resp'.user_id, resp'.workout) # {}
          /\ resp'.kind = "set_create" \/ \E s \in wsets : s.workout = resp'.workout ) =>
            /\ resp'.status >= 400
            /\ wsets' = wsets
      ]_vars

\* C28: the user_id stored on a workout never changes.
C28_OwnerNeverChanges ==
    [][ \A w \in workouts : \A v \in workouts' : v.id = w.id => v.user_id = w.user_id ]_vars

\* C29: a creation of a workout with sets that fails stores neither the
\* workout nor any of its sets.
C29_CreateWithSetsAllOrNothing ==
    [][ (Ready /\ resp'.kind = "workout_create" /\ resp'.status # 201) =>
            /\ workouts' = workouts
            /\ wsets' = wsets
      ]_vars

====
